---- MODULE Spec2Model ----
(***************************************************************************)
(* SocketInsight (src/index.js): a wrapper around one WebSocket that       *)
(* forwards the transport's events to registered listeners and reconnects  *)
(* after an unexpected closure.                                            *)
(*                                                                         *)
(* The supervisor's fields (retryAttempts, retryDelay, listeners, socket)  *)
(* are variables; every method and every event handler is one action.     *)
(* The WebSocket itself comes from the 'ws' package and is modelled by the *)
(* interface the source uses: readyState, close(code, reason), send, and   *)
(* the four events.  Transport assumptions, stated once:                   *)
(*   - a transport emits at most one close event, and none after it;       *)
(*   - close(code, reason) on a connecting or open transport is honoured:  *)
(*     the close event of that transport carries the requested code and    *)
(*     reason; on a closing or closed transport close() does nothing;      *)
(*   - a transport that was not asked to close may close at any time with  *)
(*     any code.                                                           *)
(***************************************************************************)
EXTENDS Integers, Sequences, FiniteSets, TLC

VARIABLES
    options,        \* the options object given to the constructor
    retryAttempts,  \* this.retryAttempts
    retryDelay,     \* this.retryDelay
    listeners,      \* this.listeners
    sockets,        \* every WebSocket created by connect(); this.socket is the last
    timers,         \* pending setTimeout callbacks of handleClose, oldest first
    wire,           \* the messages socket.send() was given
    nSent,          \* history: number of sendMessage() calls
    refused,        \* history: the messages passed to sendMessage() while the socket was not open
    latest,         \* history: the listener most recently passed to on(), per event
    overwritten,    \* history: the events for which on() replaced a different listener
    closeCalled,    \* history: "no", or how closeConnection() has been called:
                    \* "waiting" once it was called with a reconnect timer pending,
                    \* "idle" while every call found no timer pending
    last            \* history: what the most recent step did

vars == <<options, retryAttempts, retryDelay, listeners, sockets, timers,
          wire, nSent, refused, latest, overwritten, closeCalled, last>>

---------------------------------------------------------------------------
(* Bounds of the model *)

\* options.retryAttempts is drawn from 0..MaxRetryOption, or omitted
MaxRetryOption == 1
\* number of sendMessage() calls in a behaviour
MaxSends == 1

---------------------------------------------------------------------------
(* Program constants *)

DefaultRetryAttempts == 3
DefaultRetryDelay == 1000
NORMAL_CLOSURE == 1000
ClientReason == "Client closed the connection"

\* close codes a transport reports on its own: normal and abnormal closure
CloseCodes == {1000, 1006}
Payloads == {"ping", "pong"}
EventNames == {"open", "message", "close", "error"}
None == "none"
Listeners == {"f", "g"}
\* the values options.retryDelay is drawn from, when given
DelayOptions == {1}
\* the (event, listener) pairs on() is called with: f for every event, and
\* a second listener g for the close event
OnInputs == (EventNames \X {"f"}) \cup ({"close"} \X {"g"})

---------------------------------------------------------------------------
(* The options object: a function whose domain holds the keys given *)

EmptyOptions == [k \in {} |-> 0]

OptionChoices(key, values) == {EmptyOptions} \cup {(key :> n) : n \in values}

OptionsSet ==
    {a @@ d : a \in OptionChoices("retryAttempts", 0..MaxRetryOption),
              d \in OptionChoices("retryDelay", DelayOptions)}

Has(opts, key) == key \in DOMAIN opts

\* JavaScript's  opts[key] || dflt  for a number or undefined: 0 and
\* undefined are falsy
OrDefault(opts, key, dflt) ==
    IF Has(opts, key) /\ opts[key] # 0 THEN opts[key] ELSE dflt

constructorRetryAttempts(opts) == OrDefault(opts, "retryAttempts", DefaultRetryAttempts)

constructorRetryDelay(opts) == OrDefault(opts, "retryDelay", DefaultRetryDelay)

---------------------------------------------------------------------------
(* The transport *)

NewWebSocket ==
    [readyState |-> "CONNECTING",
     closeRequested |-> FALSE, reqCode |-> 0, reqReason |-> "", reqFrom |-> "",
     closeCode |-> 0, closeReason |-> ""]

Live(s) == s.readyState \in {"CONNECTING", "OPEN"}

\* socket.close(code, reason)
WebSocketClose(s, code, reason) ==
    IF Live(s)
    THEN [s EXCEPT !.readyState = "CLOSING", !.closeRequested = TRUE,
                   !.reqCode = code, !.reqReason = reason,
                   !.reqFrom = s.readyState]
    ELSE s

\* the transport has terminated and reports (code, reason)
WebSocketClosed(s, code, reason) ==
    [s EXCEPT !.readyState = "CLOSED", !.closeCode = code, !.closeReason = reason]

Current == Len(sockets)

---------------------------------------------------------------------------
(* The supervisor's methods *)

connect(socks) == Append(socks, NewWebSocket)

\* a listener call: which listener, for which event, with what arguments
Call(cb, event, code, reason, data) ==
    [cb |-> cb, event |-> event, code |-> code, reason |-> reason, data |-> data]

\* if (this.listeners.e) this.listeners.e(...)
Invoke(ls, event, code, reason, data) ==
    IF ls[event] # None THEN <<Call(ls[event], event, code, reason, data)>> ELSE <<>>

handleOpen(ls) == Invoke(ls, "open", 0, "", "")

\* a variant of handleMessage that passes the listener no payload
handleMessageNoData(ls, data) == Invoke(ls, "message", 0, "", "")

handleMessage(ls, data) == Invoke(ls, "message", 0, "", data)

handleError(ls) == Invoke(ls, "error", 0, "", "")

\* variants of handleCloseRetries with a slip in the condition
handleCloseRetriesAnyCode(code, attempts) == attempts > 0

handleCloseRetriesEither(code, attempts) == code # NORMAL_CLOSURE \/ attempts > 0

handleCloseRetriesAtZero(code, attempts) == code # NORMAL_CLOSURE /\ attempts >= 0

\* the condition under which handleClose schedules a reconnect
handleCloseRetries(code, attempts) == code # NORMAL_CLOSURE /\ attempts > 0

\* setTimeout(callback, delay): remaining counts down, waited counts up
setTimeout(delay) == [remaining |-> delay, waited |-> 0]

\* a variant of handleCloseTimers that schedules the reconnect twice
handleCloseTimersTwice(tm, code, attempts, delay) ==
    IF handleCloseRetries(code, attempts)
    THEN Append(Append(tm, setTimeout(delay)), setTimeout(delay)) ELSE tm

handleCloseTimers(tm, code, attempts, delay) ==
    IF handleCloseRetries(code, attempts) THEN Append(tm, setTimeout(delay)) ELSE tm

\* variants of handleCloseCalls that call the listener on one branch only
handleCloseCallsNotWhenClean(ls, code, reason, attempts) ==
    IF code = NORMAL_CLOSURE THEN <<>> ELSE Invoke(ls, "close", code, reason, "")

handleCloseCallsOnlyWithoutRetry(ls, code, reason, attempts) ==
    IF handleCloseRetries(code, attempts) THEN <<>> ELSE Invoke(ls, "close", code, reason, "")

handleCloseCalls(ls, code, reason, attempts) == Invoke(ls, "close", code, reason, "")

\* a variant of sendMessageWrites that only refuses a closed socket
sendMessageWritesUnlessClosed(readyState) == readyState # "CLOSED"

\* the guard of sendMessage
sendMessageWrites(readyState) == readyState = "OPEN"

\* a variant of closeConnectionArgs that closes with 1001 (going away)
closeConnectionArgsGoingAway == [code |-> 1001, reason |-> ClientReason]

closeConnectionArgs == [code |-> 1000, reason |-> ClientReason]

\* a variant of on that keeps the listener registered first
onKeepFirst(ls, event, listener) ==
    IF ls[event] = None THEN [ls EXCEPT ![event] = listener] ELSE ls

on(ls, event, listener) == [ls EXCEPT ![event] = listener]

---------------------------------------------------------------------------
(* What a step did *)

NoEffect ==
    [op |-> "new", sock |-> 1, code |-> 0, reason |-> "", data |-> "",
     scheduled |-> 0, opened |-> 1, wrote |-> FALSE, waited |-> 0, calls |-> <<>>]

Effect(op, sock) == [NoEffect EXCEPT !.op = op, !.sock = sock, !.opened = 0]

---------------------------------------------------------------------------
(* new SocketInsight(url, opts) *)

Init ==
    \E opts \in OptionsSet :
        /\ options = opts
        /\ retryAttempts = constructorRetryAttempts(opts)
        /\ retryDelay = constructorRetryDelay(opts)
        /\ listeners = [e \in EventNames |-> None]
        /\ sockets = connect(<<>>)
        /\ timers = <<>>
        /\ wire = {}
        /\ nSent = 0
        /\ refused = {}
        /\ latest = [e \in EventNames |-> None]
        /\ overwritten = {}
        /\ closeCalled = "no"
        /\ last = NoEffect

(* on(event, listener) *)
On(event, listener) ==
    /\ listeners' = on(listeners, event, listener)
    /\ latest' = [latest EXCEPT ![event] = listener]
    /\ overwritten' = IF latest[event] \notin {None, listener}
                      THEN overwritten \cup {event} ELSE overwritten
    /\ last' = Effect("on", Current)
    /\ UNCHANGED <<options, retryAttempts, retryDelay, sockets, timers, wire,
                   nSent, refused, closeCalled>>

(* sendMessage(message); the message is the number of the call *)
SendMessage ==
    /\ nSent < MaxSends
    /\ LET msg == nSent + 1
           writes == sendMessageWrites(sockets[Current].readyState)
       IN /\ wire' = IF writes THEN wire \cup {msg} ELSE wire
          /\ refused' = IF sockets[Current].readyState # "OPEN"
                        THEN refused \cup {msg} ELSE refused
          /\ nSent' = msg
          /\ last' = [Effect("sendMessage", Current) EXCEPT !.wrote = writes]
    /\ UNCHANGED <<options, retryAttempts, retryDelay, listeners, sockets, timers,
                   latest, overwritten, closeCalled>>

(* closeConnection() *)
CloseConnection ==
    /\ sockets' = [sockets EXCEPT ![Current] =
                       WebSocketClose(@, closeConnectionArgs.code, closeConnectionArgs.reason)]
    /\ closeCalled' = IF timers # <<>> \/ closeCalled = "waiting"
                      THEN "waiting" ELSE "idle"
    /\ last' = [Effect("closeConnection", Current) EXCEPT
                    !.code = closeConnectionArgs.code,
                    !.reason = closeConnectionArgs.reason]
    /\ UNCHANGED <<options, retryAttempts, retryDelay, listeners, timers, wire,
                   nSent, refused, latest, overwritten>>

\* a variant of TransportOpen whose handleOpen restores the retry budget
TransportOpenResetsBudget(i) ==
    /\ sockets[i].readyState = "CONNECTING"
    /\ sockets' = [sockets EXCEPT ![i].readyState = "OPEN"]
    /\ retryAttempts' = constructorRetryAttempts(options)
    /\ last' = [Effect("open", i) EXCEPT !.calls = handleOpen(listeners)]
    /\ UNCHANGED <<options, retryDelay, listeners, timers, wire,
                   nSent, refused, latest, overwritten, closeCalled>>

(* the transport's open event, dispatched to handleOpen *)
TransportOpen(i) ==
    /\ sockets[i].readyState = "CONNECTING"
    /\ sockets' = [sockets EXCEPT ![i].readyState = "OPEN"]
    /\ last' = [Effect("open", i) EXCEPT !.calls = handleOpen(listeners)]
    /\ UNCHANGED <<options, retryAttempts, retryDelay, listeners, timers, wire,
                   nSent, refused, latest, overwritten, closeCalled>>

(* the transport's message event, dispatched to handleMessage *)
TransportMessage(i, data) ==
    /\ \/ sockets[i].readyState = "OPEN"
       \/ sockets[i].readyState = "CLOSING" /\ sockets[i].reqFrom = "OPEN"
    /\ last' = [Effect("message", i) EXCEPT !.data = data,
                                            !.calls = handleMessage(listeners, data)]
    /\ UNCHANGED <<options, retryAttempts, retryDelay, listeners, sockets, timers,
                   wire, nSent, refused, latest, overwritten, closeCalled>>

\* a variant of TransportError whose handleError schedules a reconnect
TransportErrorRetries(i) ==
    /\ sockets[i].readyState # "CLOSED"
    /\ timers' = IF retryAttempts > 0 THEN Append(timers, setTimeout(retryDelay)) ELSE timers
    /\ last' = [Effect("error", i) EXCEPT !.calls = handleError(listeners)]
    /\ UNCHANGED <<options, retryAttempts, retryDelay, listeners, sockets,
                   wire, nSent, refused, latest, overwritten, closeCalled>>

(* the transport's error event, dispatched to handleError *)
TransportError(i) ==
    /\ sockets[i].readyState # "CLOSED"
    /\ last' = [Effect("error", i) EXCEPT !.calls = handleError(listeners)]
    /\ UNCHANGED <<options, retryAttempts, retryDelay, listeners, sockets, timers,
                   wire, nSent, refused, latest, overwritten, closeCalled>>

\* a variant of CloseEvent whose handleClose decrements when it schedules
CloseEventDecrements(i, code, reason) ==
    /\ sockets' = [sockets EXCEPT ![i] = WebSocketClosed(@, code, reason)]
    /\ timers' = handleCloseTimers(timers, code, retryAttempts, retryDelay)
    /\ retryAttempts' = IF handleCloseRetries(code, retryAttempts)
                        THEN retryAttempts - 1 ELSE retryAttempts
    /\ last' = [Effect("close", i) EXCEPT
                    !.code = code, !.reason = reason,
                    !.scheduled = Len(handleCloseTimers(timers, code, retryAttempts,
                                                        retryDelay)) - Len(timers),
                    !.calls = handleCloseCalls(listeners, code, reason, retryAttempts)]
    /\ UNCHANGED <<options, retryDelay, listeners, wire, nSent,
                   refused, latest, overwritten, closeCalled>>

(* the transport's close event with (code, reason), dispatched to handleClose *)
CloseEvent(i, code, reason) ==
    /\ sockets' = [sockets EXCEPT ![i] = WebSocketClosed(@, code, reason)]
    /\ timers' = handleCloseTimers(timers, code, retryAttempts, retryDelay)
    /\ last' = [Effect("close", i) EXCEPT
                    !.code = code, !.reason = reason,
                    !.scheduled = Len(handleCloseTimers(timers, code, retryAttempts,
                                                        retryDelay)) - Len(timers),
                    !.calls = handleCloseCalls(listeners, code, reason, retryAttempts)]
    /\ UNCHANGED <<options, retryAttempts, retryDelay, listeners, wire, nSent,
                   refused, latest, overwritten, closeCalled>>

(* a closure asked for with close(code, reason) completes *)
TransportClose(i) ==
    /\ sockets[i].readyState = "CLOSING"
    /\ CloseEvent(i, sockets[i].reqCode, sockets[i].reqReason)

(* a transport that was not asked to close terminates: remote close, failure *)
TransportDrop(i, code) ==
    /\ Live(sockets[i])
    /\ CloseEvent(i, code, "")

\* the steps by which time passes: to just before the next timer is due, or to it
AdvanceSteps ==
    IF timers = <<>> THEN {} ELSE {timers[1].remaining - 1, timers[1].remaining}

(* time passes by d *)
Advance(d) ==
    /\ timers # <<>>
    /\ d >= 1
    /\ d <= timers[1].remaining
    /\ timers' = [k \in 1..Len(timers) |->
                     [remaining |-> IF timers[k].remaining > d
                                    THEN timers[k].remaining - d ELSE 0,
                      waited |-> timers[k].waited + d]]
    /\ last' = Effect("advance", Current)
    /\ UNCHANGED <<options, retryAttempts, retryDelay, listeners, sockets, wire,
                   nSent, refused, latest, overwritten, closeCalled>>

\* a variant of TimerFire whose callback does nothing after closeConnection()
TimerFireUnlessClosed ==
    /\ timers # <<>>
    /\ timers[1].remaining = 0
    /\ closeCalled = "no"
    /\ timers' = Tail(timers)
    /\ retryAttempts' = retryAttempts - 1
    /\ sockets' = connect(sockets)
    /\ last' = [Effect("timer", Current + 1) EXCEPT !.opened = 1,
                                                    !.waited = timers[1].waited]
    /\ UNCHANGED <<options, retryDelay, listeners, wire, nSent, refused, latest, overwritten,
                   closeCalled>>

(* the timer of handleClose fires: retryAttempts--, connect() *)
TimerFire ==
    /\ timers # <<>>
    /\ timers[1].remaining = 0
    /\ timers' = Tail(timers)
    /\ retryAttempts' = retryAttempts - 1
    /\ sockets' = connect(sockets)
    /\ last' = [Effect("timer", Current + 1) EXCEPT !.opened = 1,
                                                    !.waited = timers[1].waited]
    /\ UNCHANGED <<options, retryDelay, listeners, wire, nSent, refused, latest, overwritten,
                   closeCalled>>

Next ==
    \/ \E in \in OnInputs : On(in[1], in[2])
    \/ SendMessage
    \/ CloseConnection
    \/ \E i \in 1..Len(sockets) : TransportOpen(i)
    \/ \E i \in 1..Len(sockets), d \in Payloads : TransportMessage(i, d)
    \/ \E i \in 1..Len(sockets) : TransportError(i)
    \/ \E i \in 1..Len(sockets) : TransportClose(i)
    \/ \E i \in 1..Len(sockets), c \in CloseCodes : TransportDrop(i, c)
    \/ \E d \in AdvanceSteps : Advance(d)
    \/ TimerFire

Spec == Init /\ [][Next]_vars

\* the transport completes a closure it was asked for
FairSpec == Spec /\ WF_vars(\E i \in 1..Len(sockets) : TransportClose(i))

\* moreover time passes, a due timer fires, and every transport closes in the end
LiveSpec ==
    /\ FairSpec
    /\ WF_vars(\E d \in AdvanceSteps : Advance(d))
    /\ WF_vars(TimerFire)
    /\ WF_vars(\E i \in 1..Len(sockets), c \in CloseCodes : TransportDrop(i, c))

---------------------------------------------------------------------------
(* Properties *)

Reconnects == Len(sockets) - 1

Closed(i) == sockets[i].readyState = "CLOSED"

\* every transport that has closed so far closed abnormally
AllClosuresAbnormal == \A i \in 1..Len(sockets) : Closed(i) => sockets[i].closeCode # 1000

\* nothing is left to happen: every transport has closed and no timer is pending
Quiet == timers = <<>> /\ \A i \in 1..Len(sockets) : Closed(i)

\* C1: for every retryAttempts option N >= 0, 0 included, while every closure
\* is abnormal the supervisor opens no more than N reconnect transports, has
\* opened exactly N when nothing is left to happen, and opens each one only
\* after the retry delay has elapsed since the closure.
C1_ExactlyNReconnects ==
    (Has(options, "retryAttempts") /\ AllClosuresAbnormal) =>
        /\ Reconnects <= options["retryAttempts"]
        /\ Quiet => Reconnects = options["retryAttempts"]
        /\ last.op = "timer" => last.waited >= retryDelay

\* C2: a close event with code 1000 schedules no reconnect: a transport that
\* closed with code 1000 is the last transport the supervisor ever opened, and
\* no reconnect timer is pending after its closure.
C2_NormalClosureNeverReconnects ==
    /\ (last.op = "close" /\ last.code = 1000) => last.scheduled = 0
    /\ \A i \in 1..Len(sockets) :
          (Closed(i) /\ sockets[i].closeCode = 1000) => (i = Current /\ timers = <<>>)

C2_Witness ==
    /\ last.op = "close" /\ last.code = 1000 /\ last.sock = Current
    /\ retryAttempts > 0
    /\ Reconnects > 0

C5_SendOnlyWhenOpen ==
    /\ wire = (1..nSent) \ refused
    /\ last.op = "sendMessage" =>
          /\ last.calls = <<>>
          /\ last.wrote <=> nSent \notin refused

\* a message was refused, and the supervisor has since reconnected and is open
C5_Witness ==
    /\ refused # {} /\ wire \cap refused = {}
    /\ Reconnects > 0
    /\ sockets[Current].readyState = "OPEN"
    /\ last.op = "open"

\* C6: each event has at most one listener, the one most recently passed to
\* on(): a dispatch calls that listener once and no other, so a replaced
\* listener is not called again, before or after a reconnect.
C6_LastRegistrationWins ==
    /\ Len(last.calls) <= 1
    /\ \A k \in 1..Len(last.calls) : last.calls[k].cb = latest[last.calls[k].event]
    /\ (last.op \in EventNames /\ latest[last.op] # None) =>
          (Len(last.calls) = 1 /\ last.calls[1].event = last.op)

C6_Witness ==
    /\ last.op = "close" /\ "close" \in overwritten
    /\ last.calls # <<>> /\ last.calls[1].cb = "g"
    /\ Reconnects > 0

\* C7: retryAttempts is never negative, and while it is 0 no reconnect timer
\* is pending, none is scheduled and no transport is opened.
C7_BudgetNeverNegative ==
    /\ [](/\ retryAttempts >= 0
          /\ retryAttempts = 0 => (timers = <<>> /\ last.scheduled = 0))
    /\ [][retryAttempts = 0 => (Len(sockets') = Len(sockets) /\ timers' = <<>>)]_vars

\* the budget is spent and the last transport has closed abnormally
C7_Witness ==
    /\ retryAttempts = 0
    /\ last.op = "close" /\ last.code # 1000 /\ last.sock = Current

LiveSockets == {i \in 1..Len(sockets) : Live(sockets[i])}

\* C8: at most one transport is connecting or open, and every transport but
\* the current one has closed (connect() never runs before that).
C8_AtMostOneLiveTransport ==
    /\ Cardinality(LiveSockets) <= 1
    /\ \A i \in 1..(Len(sockets) - 1) : Closed(i)

C8_Witness == Reconnects >= 2 /\ LiveSockets = {Current} /\ last.op = "timer"

\* closeConnection() was called while the first transport was connecting
ClosedWhileConnecting == sockets[1].closeRequested /\ sockets[1].reqFrom = "CONNECTING"

\* the close listener has just been called with the clean closure of transport 1
CleanCloseReported ==
    /\ last.op = "close" /\ last.sock = 1
    /\ Len(last.calls) = 1
    /\ last.calls[1].event = "close"
    /\ last.calls[1].code = 1000
    /\ last.calls[1].reason = "Client closed the connection"

C10_CloseListenerOncePerClose ==
    last.op = "close" =>
        /\ listeners["close"] # None =>
              last.calls = <<Call(listeners["close"], "close", last.code, last.reason, "")>>
        /\ listeners["close"] = None => last.calls = <<>>

\* an abnormal closure with a retry scheduled, reported to the listener
C10_Witness ==
    /\ last.op = "close" /\ last.code # 1000 /\ last.scheduled = 1
    /\ Len(last.calls) = 1

\* C11: every message event calls the registered message listener exactly once
\* with the event's payload as it came, within the step that delivers it (so
\* calls follow the order of delivery; nothing is kept back for later).
C11_MessageForwardedOnceUnmodified ==
    last.op = "message" =>
        /\ listeners["message"] # None =>
              last.calls = <<Call(listeners["message"], "message", 0, "", last.data)>>
        /\ listeners["message"] = None => last.calls = <<>>

C11_Witness ==
    /\ last.op = "message" /\ last.data = "pong"
    /\ Len(last.calls) = 1 /\ last.calls[1].data = "pong"

\* C12: right after construction retryAttempts is the retryAttempts option
\* whenever the option is given, 0 included, and 3 when it is omitted.
C12_InitialBudgetIsOption ==
    last.op = "new" =>
        IF Has(options, "retryAttempts")
        THEN retryAttempts = options["retryAttempts"]
        ELSE retryAttempts = 3

InitialBudget == constructorRetryAttempts(options)

\* C13: closeConnection() does not cancel a pending reconnect timer: called
\* during the wait it leaves the timer and retryAttempts as they are, and the
\* timer then fires, decrements retryAttempts and opens a new transport.
C13_CloseConnectionKeepsTimer ==
    /\ (last.op = "closeConnection" /\ timers # <<>>)
          ~> (last.op = "timer" /\ closeCalled = "waiting")
    /\ [][(last'.op = "closeConnection" /\ timers # <<>>) =>
             (timers' = timers /\ retryAttempts' = retryAttempts /\ sockets' = sockets)]_vars
    /\ [][last'.op = "timer" =>
             /\ retryAttempts' = retryAttempts - 1
             /\ Len(sockets') = Len(sockets) + 1
             /\ sockets'[Len(sockets')].readyState = "CONNECTING"]_vars

\* a transport opened by the timer after closeConnection() was called in the wait
C13_Witness ==
    /\ last.op = "timer" /\ closeCalled = "waiting"
    /\ sockets[Current].readyState = "CONNECTING"
    /\ retryAttempts = InitialBudget - Reconnects

\* C14: the open event leaves retryAttempts as it is, retryAttempts never
\* grows, and the reconnects made never exceed the initial budget.
C14_OpenKeepsBudget ==
    /\ [][/\ retryAttempts' <= retryAttempts
          /\ last'.op = "open" => retryAttempts' = retryAttempts]_vars
    /\ [](Reconnects <= InitialBudget)

\* a reconnected transport has opened and the budget is still the spent one
C14_Witness ==
    /\ last.op = "open" /\ last.sock = Current
    /\ Reconnects > 0
    /\ retryAttempts = InitialBudget - Reconnects

\* C15: an error event changes neither retryAttempts nor the transports nor
\* the timers; a timer is scheduled by a close event only.
C15_ErrorNeverReconnects ==
    /\ [][last'.op = "error" =>
             (retryAttempts' = retryAttempts /\ sockets' = sockets /\ timers' = timers)]_vars
    /\ [][Len(timers') > Len(timers) => last'.op = "close"]_vars

C15_Witness ==
    /\ last.op = "error" /\ last.calls # <<>>
    /\ Live(sockets[Current]) /\ timers = <<>>
    /\ retryAttempts > 0

\* C16: retryAttempts changes only in the step in which the timer fires, by
\* exactly -1, and that step opens the new transport; handling the closure and
\* waiting leave it, so during the wait it has the value it had at the closure.
C16_DecrementWhenTimerFires ==
    /\ [][retryAttempts' # retryAttempts =>
             /\ last'.op = "timer"
             /\ retryAttempts' = retryAttempts - 1
             /\ Len(sockets') = Len(sockets) + 1]_vars
    /\ [][last'.op \in {"close", "advance"} => retryAttempts' = retryAttempts]_vars
    /\ [](timers # <<>> => retryAttempts = InitialBudget - Reconnects)

\* waiting for the second reconnect, with the budget not yet decremented for it
C16_Witness ==
    /\ timers # <<>> /\ last.op = "advance"
    /\ Reconnects = 1
    /\ retryAttempts = InitialBudget - 1

\* closed cleanly, or closed abnormally with no retry left
Terminal ==
    /\ Closed(Current)
    /\ sockets[Current].closeCode = 1000 \/ retryAttempts = 0

\* C17: when time passes, due timers fire and every transport closes in the
\* end, the supervisor reaches a terminal state, and from a terminal state on
\* it stays there and opens no transport.
C17_ReachesTerminalState ==
    /\ <>Terminal
    /\ [][Terminal => (Terminal' /\ Len(sockets') = Len(sockets) /\ timers' = <<>>)]_vars

\* closed abnormally with the whole budget spent on reconnects
C17_Witness ==
    /\ Terminal /\ sockets[Current].closeCode # 1000
    /\ Reconnects = InitialBudget
    /\ timers = <<>>

\* C18: at most one reconnect timer is pending, and none while a transport is
\* connecting or open.
C18_OneTimerNoneWhileLive ==
    /\ Len(timers) <= 1
    /\ timers # <<>> => LiveSockets = {}

C18_Witness ==
    /\ Len(timers) = 1 /\ LiveSockets = {}
    /\ Reconnects >= 1 /\ last.op = "close"

====
